---- MODULE Spec2Model ----
(***************************************************************************)
(* TCG2 protocol binding (uefi/src/proto/tcg/v2.rs).                       *)
(*                                                                         *)
(* The binding is a table of firmware entry points (struct Tcg) and four   *)
(* safe wrappers around them.  The wrappers are modelled from their code.  *)
(* The firmware behind the entry points is not part of the source file:    *)
(* it is modelled from the specification (the Fw... definitions) as the    *)
(* environment the wrappers run against.                                   *)
(***************************************************************************)
EXTENDS Integers, Sequences, FiniteSets, TLC

\* ------------------------------------------------------------------ bounds

\* Entries the firmware's event log holds before it reports truncation.
LogCapacity == 2
\* Extensions of one PCR bank between two resets.
MaxExtends == 2

\* ------------------------------------------------------------- data types

\* HashAlgorithm bitmap: a set of bank bits.
Banks == {"SHA1", "SHA256"}
HashAlgorithm == SUBSET Banks

\* HashAlgorithm::default() / HashAlgorithm::empty(): no bit set.
HashAlgorithmEmpty == {}

\* Status words an entry point can return: success, a warning (nonzero, high
\* bit clear) and errors.
SUCCESS == "SUCCESS"
Statuses == {SUCCESS, "WARN_WRITE_FAILURE", "DEVICE_ERROR", "INVALID_PARAMETER",
             "VOLUME_FULL"}
\* What a call that did not get through to the device returns.
Failures == {"WARN_WRITE_FAILURE", "DEVICE_ERROR"}

\* u8 values of the presence flag the firmware may report.
PresentFlags == {0, 1, 255}

\* A u32 word as <<high half, low half>>, each half in 0..65535 (the model
\* checker's integers are narrower than 32 bits).
U32(hi, lo) == <<hi, lo>>
Zero32 == U32(0, 0)

\* u32 values of interest for operation_present and response:
\* 0, 1, 0xFFF, 0x1000, 0xFFFFFFF0, 0xFFFFFFF1.
PresentWords == {U32(0, 1), U32(65535, 65535)}
SlotWords == {Zero32, U32(0, 7)}
ResponseCodes == {Zero32, U32(0, 1), U32(0, 4095), U32(0, 4096),
                  U32(65535, 65520), U32(65535, 65521)}

\* Option<T>
None == <<>>
Some(x) == <<x>>

\* Result<T>
Ok(v) == [ok |-> TRUE, val |-> v]
Err(s) == [ok |-> FALSE, status |-> s]

\* An out-parameter write by the firmware: <<>> (left untouched) or <<v>>.
NoWrite == <<>>
Wrote(v) == <<v>>
Deref(init, w) == IF w = NoWrite THEN init ELSE w[1]

\* Status::into_with_val: the value on success, the status as error otherwise.
into_with_val(status, val) == IF status = SUCCESS THEN Ok(val) ELSE Err(status)

\* -------------------------------------------------- BootServiceCapability

\* The fields the operations below read; versions, sizes and ids are carried
\* through unchanged by the code and are left out.
Capability(hash, flag, act) ==
    [hash_algorithm_bitmap |-> hash, present_flag |-> flag, active_pcr_banks |-> act]

\* A default that claims every bank active.
DefaultAllBanks ==
    Capability(HashAlgorithmEmpty, 0, Banks)

\* impl Default for BootServiceCapability
BootServiceCapabilityDefault ==
    Capability(HashAlgorithmEmpty, 0, HashAlgorithmEmpty)

\* A presence test that accepts the byte 1 alone.
tpm_present_only_one(cap) == cap.present_flag = 1

\* BootServiceCapability::tpm_present
tpm_present(cap) == cap.present_flag # 0

\* -------------------------------------------------- HashLogExtendEventFlags

PE_COFF_IMAGE == 16

\* EXTEND_ONLY given the bit of PE_COFF_IMAGE.
ExtendOnlySwapped == PE_COFF_IMAGE

EFI_TCG2_EXTEND_ONLY == 1

FlagNames == {"EFI_TCG2_EXTEND_ONLY", "PE_COFF_IMAGE"}

\* The u64 a HashLogExtendEventFlags value (a set of named flags) is.
flags_bits(flags) ==
    (IF "EFI_TCG2_EXTEND_ONLY" \in flags THEN EFI_TCG2_EXTEND_ONLY ELSE 0)
    + (IF "PE_COFF_IMAGE" \in flags THEN PE_COFF_IMAGE ELSE 0)

\* Whether the bit of weight `bit` (a power of two) is set in `bits`.
BitSet(bits, bit) == (bits \div bit) % 2 = 1

\* EventLogFormat flags.
EventLogFormats == {"TCG_1_2", "TCG_2"}

VARIABLES
    \* firmware (module) state
    supported,          \* banks the module supports
    active,             \* banks currently active
    present_flag,       \* presence byte
    staged,             \* staged reconfiguration request: None or Some(banks)
    phase,              \* reboots the staged request has been through
    mailbox,            \* recorded result: None or Some(response)
    log_entries,        \* entries in the event log
    truncated,          \* log ran out of space
    pcr,                \* extensions per bank
    \* the caller's side
    call,               \* the last operation: its name, arguments, module status
    ret,                \* what the last operation returned
    operation_present,  \* local of the last get_result_of_set_active_pcr_banks
    response,           \* local of the last get_result_of_set_active_pcr_banks
    \* history
    ever_set,           \* set_active_pcr_banks was issued to the module
    since_set,          \* None, or Some(record) of the last successful set call
    carried,            \* None, or Some(result) of the last get_result_... call
                        \* that succeeded and was the last call of its boot
    pre                 \* module log/PCR state before the last hash_log_extend_event

fw == <<supported, active, present_flag, staged, phase, mailbox>>
logv == <<log_entries, truncated, pcr>>
client == <<call, ret, operation_present, response>>
hist == <<ever_set, since_set, carried, pre>>
vars == <<fw, logv, client, hist>>

\* "This change will not take effect until the system is rebooted twice."
RebootCycles == 2

\* ------------------------------------------------- firmware entry points
\* Each Fw... definition is the set of outcomes one call of the entry point
\* can have in the current module state: the status it returns, what it
\* writes through its out-pointers, and the module state it leaves.

\* EFI_TCG2_PROTOCOL.GetCapability: the full snapshot on success; on a
\* failure the buffer is untouched or partly written.
FwGetCapability ==
    {[status |-> SUCCESS, w |-> Wrote(Capability(supported, present_flag, active))]}
    \cup {[status |-> s, w |-> w] :
            s \in Failures,
            w \in {NoWrite, Wrote(Capability(supported, present_flag, HashAlgorithmEmpty))}}

\* EFI_TCG2_PROTOCOL.GetActivePcrBanks
FwGetActivePcrBanks ==
    {[status |-> SUCCESS, w |-> Wrote(active)]}
    \cup {[status |-> s, w |-> w] : s \in Failures, w \in {NoWrite, Wrote(supported)}}

\* EFI_TCG2_PROTOCOL.SetActivePcrBanks: a request outside the supported banks
\* is rejected; an accepted one replaces the staged request and starts its
\* two boot cycles; a communication failure stages nothing.
FwSetActivePcrBanks(req) ==
    IF ~(req \subseteq supported)
    THEN {[status |-> "INVALID_PARAMETER", staged |-> staged, phase |-> phase]}
    ELSE {[status |-> SUCCESS, staged |-> Some(req), phase |-> 0],
          [status |-> "DEVICE_ERROR", staged |-> staged, phase |-> phase]}

\* EFI_TCG2_PROTOCOL.GetResultOfSetActivePcrBanks: reads the mailbox.  With a
\* record, operation_present is written nonzero and response is the recorded
\* code; without one, operation_present is written 0 or both words are left
\* as the caller passed them.
FwGetResultOfSetActivePcrBanks ==
    (IF mailbox = None
     THEN {[status |-> SUCCESS, wop |-> NoWrite, wresp |-> NoWrite],
           [status |-> SUCCESS, wop |-> Wrote(Zero32), wresp |-> Wrote(Zero32)],
           [status |-> SUCCESS, wop |-> Wrote(Zero32), wresp |-> Wrote(U32(0, 4095))]}
     ELSE {[status |-> SUCCESS, wop |-> Wrote(p), wresp |-> Wrote(mailbox[1])] :
             p \in PresentWords})
    \cup {[status |-> s, wop |-> w[1], wresp |-> w[2]] :
            s \in Failures,
            w \in {<<NoWrite, NoWrite>>, <<Wrote(U32(0, 1)), Wrote(U32(0, 4095))>>}}

\* The bit of the flags word the firmware reads as "extend only".
FwExtendOnlyBit == 1

\* The log formats the firmware keeps a log in.
FwSupportedEventLogs == {"TCG_2"}

\* The address of the i-th log entry, in entries from the log area's base.
EntryAddress(i) == i

\* What EFI_TCG2_PROTOCOL.GetEventLog reports: the log's start, its last
\* entry (the start for an empty log) and the truncated flag.
EventLogView ==
    [start |-> EntryAddress(1),
     last |-> EntryAddress(IF log_entries = 0 THEN 1 ELSE log_entries),
     truncated |-> truncated]

\* EFI_TCG2_PROTOCOL.GetEventLog
FwGetEventLog(format) ==
    IF format \notin FwSupportedEventLogs
    THEN {[status |-> "INVALID_PARAMETER", w |-> NoWrite]}
    ELSE {[status |-> SUCCESS, w |-> Wrote(EventLogView)],
          [status |-> "DEVICE_ERROR", w |-> NoWrite]}

Extended == [b \in Banks |-> IF b \in active THEN pcr[b] + 1 ELSE pcr[b]]

\* EFI_TCG2_PROTOCOL.HashLogExtendEvent: every active bank is extended, then
\* the event is logged unless the extend-only bit is set.  A full log fails
\* the call after the extension and marks the log truncated; a failure of
\* the device may come before or after the extension.
FwHashLogExtendEvent(bits) ==
    {[status |-> "DEVICE_ERROR", pcr |-> p, log_entries |-> log_entries,
      truncated |-> truncated] : p \in {pcr, Extended}}
    \cup
    (IF BitSet(bits, FwExtendOnlyBit)
     THEN {[status |-> SUCCESS, pcr |-> Extended, log_entries |-> log_entries,
            truncated |-> truncated]}
     ELSE IF log_entries < LogCapacity
     THEN {[status |-> SUCCESS, pcr |-> Extended, log_entries |-> log_entries + 1,
            truncated |-> truncated]}
     ELSE {[status |-> "VOLUME_FULL", pcr |-> Extended, log_entries |-> log_entries,
            truncated |-> TRUE]})

\* ---------------------------------------------------------------- wrappers

\* Tcg::get_capability
get_capability(status, w) ==
    into_with_val(status, Deref(BootServiceCapabilityDefault, w))

\* The bitmap returned whatever the status.
get_active_pcr_banks_unchecked(status, w) ==
    Ok(Deref(HashAlgorithmEmpty, w))

\* The entry point handed a copy: the local stays empty.
get_active_pcr_banks_by_copy(status, w) ==
    into_with_val(status, HashAlgorithmEmpty)

\* Tcg::get_active_pcr_banks
get_active_pcr_banks(status, w) ==
    into_with_val(status, Deref(HashAlgorithmEmpty, w))

\* The request cut down to the supported banks.
masked_request(active_pcr_banks) == active_pcr_banks \cap supported

\* The argument Tcg::set_active_pcr_banks hands to the entry point.
set_active_pcr_banks_arg(active_pcr_banks) == active_pcr_banks

\* Tcg::set_active_pcr_banks: the status converted to Result<()>.
set_active_pcr_banks(status) == into_with_val(status, <<>>)

\* A local left uninitialised.
stale_local(slot) == slot

\* `let mut operation_present = 0; let mut response = 0;`: the value a local
\* whose stack slot held `slot` has when the entry point is called.
fresh_local(slot) == Zero32

\* Present only when operation_present is exactly 1.
result_only_one(op_present, resp) ==
    IF op_present = U32(0, 1) THEN Some(resp) ELSE None

\* The test of operation_present turned around.
result_inverted(op_present, resp) ==
    IF op_present = Zero32 THEN Some(resp) ELSE None

\* The response cut to its low 12 bits.
result_low_bits(op_present, resp) ==
    IF op_present = Zero32 THEN None ELSE Some(U32(0, resp[2] % 4096))

\* The closure of Tcg::get_result_of_set_active_pcr_banks.
result_of(op_present, resp) ==
    IF op_present = Zero32 THEN None ELSE Some(resp)

\* ------------------------------------------------------------------ state

Init ==
    /\ supported \in {{"SHA1"}, Banks}
    /\ active \in SUBSET supported
    /\ present_flag \in PresentFlags
    /\ staged = None
    /\ phase = 0
    /\ mailbox = None
    /\ log_entries = 0
    /\ truncated = FALSE
    /\ pcr = [b \in Banks |-> 0]
    /\ call = [op |-> "none", arg |-> <<>>, status |-> SUCCESS, w |-> <<>>]
    /\ ret = Ok(<<>>)
    /\ operation_present = Zero32
    /\ response = Zero32
    /\ ever_set = FALSE
    /\ since_set = None
    /\ carried = None
    /\ pre = <<>>

\* ---------------------------------------------------------------- actions

GetCapability ==
    \E o \in FwGetCapability :
        /\ call' = [op |-> "get_capability", arg |-> <<>>, status |-> o.status, w |-> <<o.w>>]
        /\ ret' = get_capability(o.status, o.w)
        /\ UNCHANGED <<fw, logv, operation_present, response, hist>>

GetActivePcrBanks ==
    \E o \in FwGetActivePcrBanks :
        /\ call' = [op |-> "get_active_pcr_banks", arg |-> <<>>, status |-> o.status,
                    w |-> <<o.w>>]
        /\ ret' = get_active_pcr_banks(o.status, o.w)
        /\ UNCHANGED <<fw, logv, operation_present, response, hist>>

SetActivePcrBanks ==
    \E requested \in HashAlgorithm :
    \E o \in FwSetActivePcrBanks(set_active_pcr_banks_arg(requested)) :
        /\ call' = [op |-> "set_active_pcr_banks", arg |-> <<requested>>,
                    status |-> o.status, w |-> <<>>]
        /\ ret' = set_active_pcr_banks(o.status)
        /\ staged' = o.staged
        /\ phase' = o.phase
        /\ ever_set' = TRUE
        /\ since_set' = IF o.status = SUCCESS
                        THEN Some([active |-> active, reboots |-> 0])
                        ELSE since_set
        /\ UNCHANGED <<supported, active, present_flag, mailbox, logv,
                       operation_present, response, carried, pre>>

\* The stack slots of the two locals hold anything before the call.
GetResultOfSetActivePcrBanks ==
    \E o \in FwGetResultOfSetActivePcrBanks :
    \E slot \in SlotWords :
        /\ operation_present' = Deref(fresh_local(slot), o.wop)
        /\ response' = Deref(fresh_local(slot), o.wresp)
        /\ call' = [op |-> "get_result_of_set_active_pcr_banks", arg |-> <<>>,
                    status |-> o.status, w |-> <<o.wop, o.wresp>>]
        /\ ret' = into_with_val(o.status, result_of(operation_present', response'))
        /\ UNCHANGED <<fw, logv, hist>>

\* A platform reset.  A staged request is processed by the firmware on the
\* first reset after it was accepted (the outcome goes to the mailbox) and
\* the banks it asked for are active after the second.  A record with no
\* request in processing may be dropped (the clearing policy is the
\* module's).  PCRs and the event log start over, and nothing the caller held
\* survives.
Reboot ==
    /\ \/ /\ staged = None
          /\ mailbox' \in {mailbox, None}
          /\ UNCHANGED <<active, staged, phase>>
       \/ /\ staged # None /\ phase = 0
          /\ \E r \in ResponseCodes :
                /\ mailbox' = Some(r)
                /\ staged' = IF r = Zero32 THEN staged ELSE None
                /\ phase' = IF r = Zero32 THEN 1 ELSE 0
          /\ UNCHANGED active
       \/ /\ staged # None /\ phase = RebootCycles - 1
          /\ active' = staged[1]
          /\ staged' = None
          /\ phase' = 0
          /\ mailbox' \in {mailbox, None}
    /\ log_entries' = 0
    /\ truncated' = FALSE
    /\ pcr' = [b \in Banks |-> 0]
    /\ since_set' = IF since_set = None THEN None
                    ELSE Some([since_set[1] EXCEPT
                                 !.reboots = IF @ < RebootCycles THEN @ + 1 ELSE @])
    /\ carried' = IF call.op = "get_result_of_set_active_pcr_banks" /\ ret.ok
                  THEN Some(ret.val) ELSE carried
    /\ pre' = <<>>
    /\ call' = [op |-> "reboot", arg |-> <<>>, status |-> SUCCESS, w |-> <<>>]
    /\ ret' = Ok(<<>>)
    /\ operation_present' = Zero32
    /\ response' = Zero32
    /\ UNCHANGED <<supported, present_flag, ever_set>>

GetEventLog ==
    \E format \in EventLogFormats :
    \E o \in FwGetEventLog(format) :
        /\ call' = [op |-> "get_event_log", arg |-> <<format>>, status |-> o.status,
                    w |-> <<o.w>>]
        /\ ret' = into_with_val(o.status, Deref(<<>>, o.w))
        /\ UNCHANGED <<fw, logv, operation_present, response, hist>>

HashLogExtendEvent ==
    /\ \A b \in active : pcr[b] < MaxExtends
    /\ \E flags \in SUBSET FlagNames :
       \E o \in FwHashLogExtendEvent(flags_bits(flags)) :
        /\ call' = [op |-> "hash_log_extend_event", arg |-> <<flags>>,
                    status |-> o.status, w |-> <<>>]
        /\ ret' = into_with_val(o.status, <<>>)
        /\ pcr' = o.pcr
        /\ log_entries' = o.log_entries
        /\ truncated' = o.truncated
        /\ pre' = [view |-> EventLogView, pcr |-> pcr]
        /\ UNCHANGED <<fw, operation_present, response, ever_set, since_set, carried>>

Next ==
    \/ GetCapability
    \/ GetActivePcrBanks
    \/ SetActivePcrBanks
    \/ GetResultOfSetActivePcrBanks
    \/ Reboot

\* Bank management: capability, active banks, reconfiguration and its result.
Spec == Init /\ [][Next]_vars

NextLog ==
    \/ GetEventLog
    \/ HashLogExtendEvent
    \/ Reboot

\* Measurement: extending PCRs and the event log.
SpecLog == Init /\ [][NextLog]_vars

\* ------------------------------------------------------------------ claims

GetResultCall == call.op = "get_result_of_set_active_pcr_banks"

\* C1: when the entry point returns success, get_result_of_set_active_pcr_banks
\* returns None exactly when operation_present ended 0 (the module wrote 0,
\* whatever it wrote to response), and otherwise Some(response) with the word
\* the module wrote; every nonzero operation_present counts as present.
C1_ResultFollowsWrittenWords ==
    (GetResultCall /\ call.status = SUCCESS) =>
        LET wop == call.w[1]
            wresp == call.w[2]
        IN  /\ ret.ok
            /\ (ret.val = None) <=> (operation_present = Zero32)
            /\ wop = Wrote(Zero32) => ret.val = None
            /\ (wop # NoWrite /\ wop # Wrote(Zero32)) =>
                   /\ ret.val # None
                   /\ ret.val[1] = response
                   /\ wresp # NoWrite => ret.val = wresp

\* A recorded success read back through a present word other than 1.
C1_Witness ==
    /\ GetResultCall
    /\ call.status = SUCCESS
    /\ call.w[1] = Wrote(U32(65535, 65535))
    /\ ret = Ok(Some(Zero32))

\* C2: while fewer than two reboots have passed since the last successful
\* set_active_pcr_banks, a successful get_active_pcr_banks (and the
\* active_pcr_banks of a successful get_capability) returns the set that was
\* active before that call.
C2_ActiveUnchangedBeforeTwoReboots ==
    (since_set # None /\ since_set[1].reboots < RebootCycles) =>
        /\ (call.op = "get_active_pcr_banks" /\ ret.ok) =>
               ret.val = since_set[1].active
        /\ (call.op = "get_capability" /\ ret.ok) =>
               ret.val.active_pcr_banks = since_set[1].active

\* One reboot after a request for other banks, the old set is still returned.
C2_Witness ==
    /\ since_set # None
    /\ since_set[1].reboots = 1
    /\ staged # None
    /\ call.op = "get_active_pcr_banks"
    /\ ret.ok
    /\ ret.val # staged[1]
    /\ ret.val = since_set[1].active

\* C3: as long as set_active_pcr_banks has never been issued, a successful
\* get_result_of_set_active_pcr_banks returns None.
C3_NoRequestNoResult ==
    (~ever_set /\ GetResultCall /\ ret.ok) => ret.val = None

\* The query made after a reboot, with no request ever issued.
C3_Witness ==
    /\ ~ever_set
    /\ GetResultCall
    /\ ret = Ok(None)
    /\ call.w[1] = Wrote(Zero32)

\* The classes of a response code, as the documentation of
\* get_result_of_set_active_pcr_banks lists them.
InClass(k, c) ==
    CASE k = "success" -> c = Zero32
      [] k = "tpm_error" -> c[1] = 0 /\ c[2] \in 1..4095
      [] k = "cancelled_or_timeout" -> c = U32(65535, 65520)
      [] k = "firmware_error" -> c = U32(65535, 65521)

ClassesOf(c) ==
    {k \in {"success", "tpm_error", "cancelled_or_timeout", "firmware_error"} :
        InClass(k, c)}

C5_ActiveWithinSupported ==
    /\ BootServiceCapabilityDefault.active_pcr_banks
           \subseteq BootServiceCapabilityDefault.hash_algorithm_bitmap
    /\ (call.op = "get_capability" /\ ret.ok) =>
           ret.val.active_pcr_banks \subseteq ret.val.hash_algorithm_bitmap

\* A capability read after a reconfiguration took effect.
C5_Witness ==
    /\ call.op = "get_capability"
    /\ ret.ok
    /\ since_set # None
    /\ since_set[1].reboots = RebootCycles
    /\ ret.val.active_pcr_banks # since_set[1].active
    /\ ret.val.active_pcr_banks # {}
    /\ ret.val.active_pcr_banks # ret.val.hash_algorithm_bitmap

\* C6: get_capability adds no error of its own when the module is absent: a
\* call the entry point answers with success returns Ok, tpm_present() of the
\* returned capability is true exactly when the module's presence byte is
\* nonzero, and tpm_present() of the default capability is false.
C6_AbsenceIsNotAnError ==
    /\ ~tpm_present(BootServiceCapabilityDefault)
    /\ (call.op = "get_capability" /\ call.status = SUCCESS) =>
           /\ ret.ok
           /\ tpm_present(ret.val) <=> (present_flag # 0)

\* An absent module, reported through a successful call.
C6_Witness ==
    /\ call.op = "get_capability"
    /\ present_flag = 0
    /\ ret.ok
    /\ ~tpm_present(ret.val)

WrapperOps ==
    {"get_capability", "get_active_pcr_banks", "set_active_pcr_banks",
     "get_result_of_set_active_pcr_banks"}

\* C7: each of the four wrappers returns a value exactly when the entry
\* point reported success, and otherwise the error of that status and nothing
\* of what the module may have written.
C7_ValueOnlyOnSuccess ==
    (call.op \in WrapperOps) =>
        /\ ret.ok <=> (call.status = SUCCESS)
        /\ ~ret.ok => ret = Err(call.status)
        /\ ret.ok => DOMAIN ret = {"ok", "val"}

\* A failed get_active_pcr_banks whose out-parameter the module had written.
C7_Witness ==
    /\ call.op = "get_active_pcr_banks"
    /\ call.status = "WARN_WRITE_FAILURE"
    /\ call.w[1] # NoWrite
    /\ ret = Err("WARN_WRITE_FAILURE")

ExtendOnlyCall ==
    /\ call.op = "hash_log_extend_event"
    /\ "EFI_TCG2_EXTEND_ONLY" \in call.arg[1]

\* C9: hash_log_extend_event with EXTEND_ONLY leaves what get_event_log
\* reports (start, last entry, truncated) as it was, and on success every
\* active bank has been extended once.
C9_ExtendOnlyLeavesLog ==
    ExtendOnlyCall =>
        /\ EventLogView = pre.view
        /\ call.status = SUCCESS =>
               \A b \in Banks :
                   pcr[b] = IF b \in active THEN pre.pcr[b] + 1 ELSE pre.pcr[b]

\* An extend-only call on a log that already has an entry.
C9_Witness ==
    /\ ExtendOnlyCall
    /\ call.status = SUCCESS
    /\ active = Banks
    /\ log_entries = 1
    /\ \A b \in Banks : pcr[b] = 2

\* C10: every successful get_result_of_set_active_pcr_banks returns the
\* module's record as it is at that call, whatever an earlier call returned
\* and whatever the locals' stack slots held.
C10_AlwaysTheCurrentRecord ==
    (GetResultCall /\ ret.ok) => ret.val = mailbox

\* The record was cleared after a call that had returned a code.
C10_Witness ==
    /\ GetResultCall
    /\ carried # None
    /\ carried[1] # None
    /\ ret = Ok(None)
    /\ call.w[1] = NoWrite

====
